---- MODULE Spec2Model ----
(***************************************************************************)
(* Model of src/id.rs (floem): the Id allocator (Id::next), the            *)
(* thread-local path registry ID_PATHS and the operations on it            *)
(* (Id::new, set_parent, parent, id_path, has_id_path, remove_id_path,     *)
(* root_id), and the update mailbox the request operations push onto       *)
(* (CENTRAL_UPDATE_MESSAGES, CENTRAL_DEFERRED_UPDATE_MESSAGES).            *)
(*                                                                         *)
(* An Id is the u64 it wraps.  Option<T> is a sequence of length 0 (None)  *)
(* or 1 (Some(x) = <<x>>); IdPath is the sequence of its Vec<Id>.          *)
(* ID_PATHS is a function whose DOMAIN is the set of keys of the HashMap.  *)
(*                                                                         *)
(* An Id can only be built by Id::next (the field of Id is private), so    *)
(* the receivers and arguments of the operations are drawn from the values *)
(* Id::next has already returned.                                          *)
(*                                                                         *)
(* The counter is an AtomicU64; fetch_add wraps at 2^64.  The model stops  *)
(* allocating at MaxCounter, far below the wrap.                           *)
(***************************************************************************)
EXTENDS Integers, Sequences, FiniteSets, TLC

\* ---------------------------------------------------------------- bounds
\* Id::next is called at most MaxCounter times.
MaxCounter == 3
\* No path longer than MaxPathLen is built.
MaxPathLen == 3
\* Number of execution contexts calling Id::next concurrently (SpecConc).
NumThreads == 3
\* At most MaxRewrites entries of the registry are overwritten or removed.
MaxRewrites == 1
\* At most MaxQueue messages are pending (in the two queues and in the batch
\* the consumer is applying).
MaxQueue == 2

VARIABLES
    WIDGET_ID_COUNTER,  \* static AtomicU64 of Id::next
    ID_PATHS,           \* thread_local HashMap<Id, IdPath> of the owner context
    panicked,           \* the owner context has panicked (unwrap on None)
    last,               \* history: the last call of the owner context, with its
                        \* receiver, argument and return value
    issued,             \* history: the values Id::next has returned, in order
    rewrites,           \* history: how many registry entries have been
                        \* overwritten or removed so far
    pc,                 \* SpecConc: position of each context inside Id::next
    local,              \* SpecConc: the value fetch_add gave each context
    CENTRAL_UPDATE_MESSAGES,           \* thread_local Vec<(Id, UpdateMessage)>
    CENTRAL_DEFERRED_UPDATE_MESSAGES,  \* thread_local Vec<(Id, Box<dyn Any>)>
    consumer,           \* what the consumer of the mailbox is doing: "idle",
                        \* applying the "immediate" batch or the "deferred" one
    batch               \* the pairs the consumer drained and has not applied yet

vars == <<WIDGET_ID_COUNTER, ID_PATHS, panicked, last, issued, rewrites, pc, local,
          CENTRAL_UPDATE_MESSAGES, CENTRAL_DEFERRED_UPDATE_MESSAGES, consumer, batch>>
concVars == <<pc, local>>
mailVars == <<CENTRAL_UPDATE_MESSAGES, CENTRAL_DEFERRED_UPDATE_MESSAGES, consumer, batch>>
ownerVars == <<ID_PATHS, panicked, last, rewrites, mailVars>>

Threads == 1..NumThreads

\* ---------------------------------------------------------------- helpers
None == <<>>
Some(x) == <<x>>

\* The Ids that exist: those Id::next has handed out.
Allocated == 0..(WIDGET_ID_COUNTER - 1)

\* AtomicU64::fetch_add: the value stored (the caller gets the old one).
fetch_add_lost(cur, val) == cur
fetch_add_narrow(cur, val) == (cur + val) % 2
fetch_add(cur, val) == cur + val

\* HashMap::get(..).cloned()
get(m, k) == IF k \in DOMAIN m THEN Some(m[k]) ELSE None

\* Option<IdPath>::unwrap_or_default(): IdPath::default() is the empty Vec.
unwrap_or_default(o) == IF o = None THEN <<>> ELSE o[1]

\* HashMap::contains_key
contains_key(m, k) == k \in DOMAIN m

\* HashMap::insert: adds the key or overwrites its value.
insert_only(m, k, v) == [x \in {k} |-> v]
insert_keep_old(m, k, v) == [x \in DOMAIN m \cup {k} |-> IF x \in DOMAIN m THEN m[x] ELSE v]
insert(m, k, v) == [x \in DOMAIN m \cup {k} |-> IF x = k THEN v ELSE m[x]]

\* HashMap::remove
remove_nothing(m, k) == m
remove_cascade(m, k) == [x \in {y \in DOMAIN m : \A i \in 1..Len(m[y]) : m[y][i] # k} |-> m[x]]
remove(m, k) == [x \in DOMAIN m \ {k} |-> m[x]]

\* Vec::push
push_twice(v, x) == Append(Append(v, x), x)
push_nothing(v, x) == v
push_front(v, x) == <<x>> \o v
push(v, x) == Append(v, x)

\* The record kept of the owner's last call.
Call(op, self, arg, ret) == [op |-> op, self |-> self, arg |-> arg, ret |-> ret]

\* ---------------------------------------------------------------- Id::next
\* Id::next() called by the owner context: one atomic fetch_add.
IdNext ==
    /\ ~panicked
    /\ last' = Call("next", None, None, Some(WIDGET_ID_COUNTER))
    /\ WIDGET_ID_COUNTER < MaxCounter
    /\ WIDGET_ID_COUNTER' = fetch_add(WIDGET_ID_COUNTER, 1)
    /\ issued' = Append(issued, WIDGET_ID_COUNTER)
    /\ UNCHANGED <<ID_PATHS, panicked, rewrites, concVars, mailVars>>

\* ---------------------------------------------------------------- Id::new
\* `if id_path.0.is_empty()`: Id::new reuses the receiver instead of allocating.
reuses_never(path) == FALSE
reuses_always(path) == TRUE
reuses(path) == path = <<>>

IdNew(self) ==
    LET path == unwrap_or_default(get(ID_PATHS, self))
        id   == IF reuses(path) THEN self ELSE WIDGET_ID_COUNTER
    IN  /\ ~panicked
        /\ last' = Call("new", Some(self), None, Some(id))
        /\ Len(path) < MaxPathLen
        /\ reuses(path) \/ WIDGET_ID_COUNTER < MaxCounter
        /\ IF reuses(path)
              THEN UNCHANGED <<WIDGET_ID_COUNTER, issued>>
              ELSE /\ WIDGET_ID_COUNTER' = fetch_add(WIDGET_ID_COUNTER, 1)
                   /\ issued' = Append(issued, WIDGET_ID_COUNTER)
        /\ ID_PATHS' = insert(ID_PATHS, id, push(path, id))
        /\ rewrites' = rewrites + (IF contains_key(ID_PATHS, id) THEN 1 ELSE 0)
        /\ UNCHANGED <<panicked, concVars, mailVars>>

\* ---------------------------------------------------------------- Id::set_parent
\* Option::unwrap: the value of Some, a panic on None.
unwrap_or_empty(o) == [panic |-> FALSE, value |-> IF o = None THEN <<>> ELSE o[1]]
unwrap(o) == IF o = None THEN [panic |-> TRUE, value |-> <<>>]
                         ELSE [panic |-> FALSE, value |-> o[1]]

SetParent(self, parent_id) ==
    LET r == unwrap(get(ID_PATHS, parent_id))
    IN  /\ ~panicked
        /\ last' = Call("set_parent", Some(self), Some(parent_id), None)
        /\ IF r.panic
              THEN /\ panicked' = TRUE
                   /\ UNCHANGED <<ID_PATHS, rewrites>>
              ELSE /\ Len(r.value) < MaxPathLen
                   /\ contains_key(ID_PATHS, self) => rewrites < MaxRewrites
                   /\ ID_PATHS' = insert(ID_PATHS, self, push(r.value, self))
                   /\ rewrites' = rewrites + (IF contains_key(ID_PATHS, self) THEN 1 ELSE 0)
                   /\ UNCHANGED panicked
        /\ UNCHANGED <<WIDGET_ID_COUNTER, issued, concVars, mailVars>>

\* ---------------------------------------------------------------- accessors
\* Id::parent: the second-to-last id of the path, when there is one.
parent_last(m, self) == IF ~contains_key(m, self) \/ m[self] = <<>> THEN None
                        ELSE Some(m[self][Len(m[self])])
parent(m, self) ==
    IF ~contains_key(m, self) THEN None
    ELSE LET len == Len(m[self])
         IN  IF len >= 2 THEN Some(m[self][len - 1]) ELSE None

\* Id::id_path
id_path(m, self) == get(m, self)

\* Id::has_id_path
has_id_path(m, self) == contains_key(m, self)

\* Id::root_id: `path.0.first().copied()`.
root_id(m, self) ==
    IF ~contains_key(m, self) THEN None
    ELSE IF m[self] = <<>> THEN None ELSE Some(m[self][1])

\* The owner calls one of the four accessors; only the call record changes.
Accessor(op, self) ==
    /\ ~panicked
    /\ last' = Call(op, Some(self), None,
                    CASE op = "parent"      -> parent(ID_PATHS, self)
                      [] op = "id_path"     -> id_path(ID_PATHS, self)
                      [] op = "has_id_path" -> Some(has_id_path(ID_PATHS, self))
                      [] op = "root_id"     -> root_id(ID_PATHS, self))
    /\ UNCHANGED <<WIDGET_ID_COUNTER, ID_PATHS, panicked, issued, rewrites, concVars, mailVars>>

Parent(self) == Accessor("parent", self)
IdPath(self) == Accessor("id_path", self)
HasIdPath(self) == Accessor("has_id_path", self)
RootId(self) == Accessor("root_id", self)

\* ---------------------------------------------------------------- Id::remove_id_path
RemoveIdPath(self) ==
    /\ ~panicked
    /\ last' = Call("remove_id_path", Some(self), None, None)
    /\ contains_key(ID_PATHS, self) => rewrites < MaxRewrites
    /\ ID_PATHS' = remove(ID_PATHS, self)
    /\ rewrites' = rewrites + (IF contains_key(ID_PATHS, self) THEN 1 ELSE 0)
    /\ UNCHANGED <<WIDGET_ID_COUNTER, panicked, issued, concVars, mailVars>>

\* ---------------------------------------------------------------- concurrent Id::next
\* A context enters Id::next.
NextCall(t) ==
    /\ pc[t] = "idle"
    /\ WIDGET_ID_COUNTER + Cardinality({u \in Threads : pc[u] = "fetch"}) < MaxCounter
    /\ pc' = [pc EXCEPT ![t] = "fetch"]
    /\ UNCHANGED <<WIDGET_ID_COUNTER, local, issued, ownerVars>>

\* Its fetch_add: one atomic read-modify-write of the counter.
NextFetchAdd(t) ==
    /\ pc[t] = "fetch"
    /\ local' = [local EXCEPT ![t] = Some(WIDGET_ID_COUNTER)]
    /\ WIDGET_ID_COUNTER' = fetch_add(WIDGET_ID_COUNTER, 1)
    /\ pc' = [pc EXCEPT ![t] = "ret"]
    /\ UNCHANGED <<issued, ownerVars>>

\* It returns Id(old value).
NextReturn(t) ==
    /\ pc[t] = "ret"
    /\ issued' = Append(issued, local[t][1])
    /\ local' = [local EXCEPT ![t] = None]
    /\ pc' = [pc EXCEPT ![t] = "idle"]
    /\ UNCHANGED <<WIDGET_ID_COUNTER, ownerVars>>

\* ---------------------------------------------------------------- the update mailbox
\* The payloads update_state and update_state_deferred are called with.
States == {"s"}

\* Box::new(state)
Box(state) == [boxed |-> state]

\* The UpdateMessage variants the modelled request operations build.  The other
\* request operations of Id (update_disabled, request_layout, update_style, ...)
\* make the same call of add_update_message with another variant.
Focus(id) == [tag |-> "Focus", id |-> id]
RequestPaint == [tag |-> "RequestPaint"]
State(id, state) == [tag |-> "State", id |-> id, state |-> Box(state)]

\* The two queues, as one value.
Mail == [immediate |-> CENTRAL_UPDATE_MESSAGES, deferred |-> CENTRAL_DEFERRED_UPDATE_MESSAGES]

\* Id::add_update_message: `msgs.borrow_mut().push((*self, msg))` on
\* CENTRAL_UPDATE_MESSAGES.
add_update_message_deferred(mail, self, msg) == [mail EXCEPT !.deferred = push(@, <<self, msg>>)]
add_update_message_replace(mail, self, msg) == [mail EXCEPT !.immediate = <<<<self, msg>>>>]
add_update_message(mail, self, msg) == [mail EXCEPT !.immediate = push(@, <<self, msg>>)]

\* Id::update_state_deferred: `msgs.borrow_mut().push((*self, Box::new(state)))`
\* on CENTRAL_DEFERRED_UPDATE_MESSAGES.
update_state_deferred_now(mail, self, state) == [mail EXCEPT !.immediate = push(@, <<self, State(self, state)>>)]
update_state_deferred(mail, self, state) == [mail EXCEPT !.deferred = push(@, <<self, Box(state)>>)]

\* The messages pending: queued, or drained and not applied yet.
Pending == Len(CENTRAL_UPDATE_MESSAGES) + Len(CENTRAL_DEFERRED_UPDATE_MESSAGES) + Len(batch)

\* A request operation of the owner context: it leaves the mailbox as `mail`.
Request(op, self, mail) ==
    /\ ~panicked
    /\ last' = Call(op, Some(self), None, None)
    /\ Pending < MaxQueue
    /\ CENTRAL_UPDATE_MESSAGES' = mail.immediate
    /\ CENTRAL_DEFERRED_UPDATE_MESSAGES' = mail.deferred
    /\ UNCHANGED <<WIDGET_ID_COUNTER, ID_PATHS, panicked, issued, rewrites, consumer, batch, concVars>>

\* Id::request_focus
RequestFocus(self) == Request("request_focus", self, add_update_message(Mail, self, Focus(self)))

\* Id::request_paint
RequestPaintOp(self) == Request("request_paint", self, add_update_message(Mail, self, RequestPaint))

\* Id::update_state
UpdateState(self, state) ==
    Request("update_state", self, add_update_message(Mail, self, State(self, state)))

\* Id::update_state_deferred
UpdateStateDeferred(self, state) ==
    Request("update_state_deferred", self, update_state_deferred(Mail, self, state))

\* ---------------------------------------------------------------- the consumer
\* The consumer of the mailbox runs in the owner context.  Each cycle it drains
\* the immediate queue and applies its pairs in order, then drains the
\* deferred queue and applies its pairs in order.  The owner's handlers run
\* between its steps and may push new messages.
Consume(step, who, taken, left) ==
    /\ ~panicked
    /\ last' = Call(step, None, None, None)
    /\ consumer' = who
    /\ batch' = taken
    /\ CENTRAL_UPDATE_MESSAGES' = left.immediate
    /\ CENTRAL_DEFERRED_UPDATE_MESSAGES' = left.deferred
    /\ UNCHANGED <<WIDGET_ID_COUNTER, ID_PATHS, panicked, issued, rewrites, concVars>>

\* Take everything the immediate queue holds.
DrainImmediate ==
    /\ consumer = "idle"
    /\ Pending > 0
    /\ Consume("drain_immediate", "immediate", CENTRAL_UPDATE_MESSAGES,
               [Mail EXCEPT !.immediate = <<>>])

\* Apply the first pair of the batch.
Apply ==
    /\ consumer # "idle"
    /\ batch # <<>>
    /\ Consume("apply", consumer, Tail(batch), Mail)

\* The immediate batch is applied: take everything the deferred queue holds.
DrainDeferred ==
    /\ consumer = "immediate"
    /\ batch = <<>>
    /\ Consume("drain_deferred", "deferred", CENTRAL_DEFERRED_UPDATE_MESSAGES,
               [Mail EXCEPT !.deferred = <<>>])

\* The deferred batch is applied: the cycle is over.
Finish ==
    /\ consumer = "deferred"
    /\ batch = <<>>
    /\ Consume("finish", "idle", <<>>, Mail)

\* ---------------------------------------------------------------- specifications
Init ==
    /\ WIDGET_ID_COUNTER = 0
    /\ ID_PATHS = <<>>
    /\ panicked = FALSE
    /\ last = Call("init", None, None, None)
    /\ issued = <<>>
    /\ rewrites = 0
    /\ pc = [t \in Threads |-> "idle"]
    /\ local = [t \in Threads |-> None]
    /\ CENTRAL_UPDATE_MESSAGES = <<>>
    /\ CENTRAL_DEFERRED_UPDATE_MESSAGES = <<>>
    /\ consumer = "idle"
    /\ batch = <<>>

\* The owner context: every operation of the registry, one call at a time.
Next ==
    \/ IdNext
    \/ \E self \in Allocated : IdNew(self)
    \/ \E self \in Allocated : \E parent_id \in Allocated : SetParent(self, parent_id)
    \/ \E self \in Allocated : RemoveIdPath(self)
    \/ \E self \in Allocated : Parent(self)
    \/ \E self \in Allocated : IdPath(self)
    \/ \E self \in Allocated : HasIdPath(self)
    \/ \E self \in Allocated : RootId(self)

Spec == Init /\ [][Next]_vars

\* Several contexts inside Id::next at once.
NextConc == \E t \in Threads : NextCall(t) \/ NextFetchAdd(t) \/ NextReturn(t)

SpecConc == Init /\ [][NextConc]_vars

\* The mailbox is at rest: nothing pending and the consumer idle.
MailboxIdle == Pending = 0 /\ consumer = "idle"

\* The registry in which the mailbox is exercised: id 0 is registered as a
\* root, id 1 is allocated and has no entry.
MailboxScene == WIDGET_ID_COUNTER = 2 /\ ID_PATHS = (0 :> <<0>>)

\* The owner context with its mailbox: the operations of the registry while the
\* mailbox is at rest, and in MailboxScene the request operations, the
\* accessors and the consumer.
NextMail ==
    \/ MailboxIdle /\ Next
    \/ MailboxScene /\ \E self \in Allocated : RequestFocus(self)
    \/ MailboxScene /\ \E self \in Allocated : RequestPaintOp(self)
    \/ MailboxScene /\ \E self \in Allocated : \E state \in States : UpdateState(self, state)
    \/ MailboxScene /\ \E self \in Allocated : \E state \in States : UpdateStateDeferred(self, state)
    \/ MailboxScene /\ \E self \in Allocated :
           Parent(self) \/ IdPath(self) \/ HasIdPath(self) \/ RootId(self)
    \/ MailboxScene /\ (DrainImmediate \/ Apply \/ DrainDeferred \/ Finish)

SpecMail == Init /\ [][NextMail]_vars

\* ---------------------------------------------------------------- properties
\* The ids of a path.
Elems(path) == {path[i] : i \in 1..Len(path)}

\* Every entry of m other than k's is the same in n.
SameExcept(m, n, k) ==
    /\ DOMAIN n \ {k} = DOMAIN m \ {k}
    /\ \A y \in DOMAIN m \ {k} : n[y] = m[y]

\* C1: in the owner context, where the calls of Id::next follow one another,
\* each call returns a value strictly greater than every value returned by an
\* earlier call (so no value is returned twice).
C1_NextStrictlyIncreasing ==
    \A i, j \in 1..Len(issued) : i < j => issued[i] < issued[j]

C1_Witness == Len(issued) >= 3 /\ last.op = "next"

\* C2: with several contexts inside Id::next at once, the values handed out
\* (returned already, or held by a call that has not returned yet) are
\* pairwise distinct, and the counter has advanced by exactly the number of
\* fetch_adds performed: once every call has returned, by the number of calls.
C2_ConcurrentDistinct ==
    /\ \A i, j \in 1..Len(issued) : i # j => issued[i] # issued[j]
    /\ \A t \in Threads : local[t] # None => \A i \in 1..Len(issued) : issued[i] # local[t][1]
    /\ \A t, u \in Threads : (t # u /\ local[t] # None /\ local[u] # None) => local[t] # local[u]
    /\ WIDGET_ID_COUNTER = Len(issued) + Cardinality({t \in Threads : pc[t] = "ret"})

C2_Witness ==
    /\ \E t, u \in Threads : t # u /\ pc[t] = "ret" /\ pc[u] = "ret"
    /\ Len(issued) >= 1

\* The path prefix property of one state of the registry: for every registered
\* x whose path is [r, ..., p, x], if p is registered then p's path is [r, ..., p].
PathPrefix(m) ==
    \A x \in DOMAIN m :
        LET n == Len(m[x])
        IN  n >= 2 => LET p == m[x][n - 1]
                      IN  contains_key(m, p) => m[p] = SubSeq(m[x], 1, n - 1)

\* C3 as stated: the path prefix property holds in every reachable state.
C3_PathPrefixAlways == PathPrefix(ID_PATHS)

\* C3 (amended): the path prefix property holds in every state reached by
\* Id::next, Id::new and set_parent as long as no registry entry has been
\* overwritten (set_parent on a registered id) or removed (remove_id_path).
C3_PathPrefixUntilRewrite == rewrites = 0 => PathPrefix(ID_PATHS)

C3_Witness ==
    /\ rewrites = 0
    /\ last.op = "set_parent"
    /\ ~panicked
    /\ Len(ID_PATHS[last.self[1]]) = 3
    /\ contains_key(ID_PATHS, last.arg[1])

\* C4: every key of the registry is the last element of the path stored under it.
C4_KeyIsLastOfPath ==
    \A x \in DOMAIN ID_PATHS : ID_PATHS[x] # <<>> /\ ID_PATHS[x][Len(ID_PATHS[x])] = x

C4_Witness ==
    /\ last.op = "set_parent"
    /\ ~panicked
    /\ rewrites = 1
    /\ Cardinality(DOMAIN ID_PATHS) >= 2
    /\ Len(ID_PATHS[last.self[1]]) >= 2

\* C5: Id::new on an id with no registry entry returns that id itself and
\* leaves it registered with the path [id].
C5_ReuseOnFirstDerive ==
    [][\A a \in Allocated :
          (~contains_key(ID_PATHS, a) /\ IdNew(a)) =>
              /\ last'.ret = Some(a)
              /\ id_path(ID_PATHS', a) = Some(<<a>>)]_vars

C5_Witness ==
    /\ last.op = "new"
    /\ last.ret = last.self
    /\ id_path(ID_PATHS, last.self[1]) = Some(<<last.self[1]>>)

\* C6: Id::new on an id a registered with path P returns a newly allocated id
\* b, different from a, and leaves b registered with the path P followed by b.
C6_AllocateOnSecondDerive ==
    [][\A a \in Allocated :
          (contains_key(ID_PATHS, a) /\ IdNew(a)) =>
              LET b == last'.ret[1]
              IN  /\ b # a
                  /\ b \notin Allocated
                  /\ b \in 0..(WIDGET_ID_COUNTER' - 1)
                  /\ id_path(ID_PATHS', b) = Some(ID_PATHS[a] \o <<b>>)]_vars

C6_Witness ==
    /\ last.op = "new"
    /\ last.ret # last.self
    /\ id_path(ID_PATHS, last.self[1]) = Some(<<last.self[1]>>)
    /\ id_path(ID_PATHS, last.ret[1]) = Some(<<last.self[1], last.ret[1]>>)

\* The steps of the end-to-end scenario, each as a statement about one call.
\* An id is freshly allocated when the owner's last call was the Id::next that
\* returned it.
Fresh(x) == last = Call("next", None, None, Some(x)) /\ ~contains_key(ID_PATHS, x)

\* Id::new on a freshly allocated r yields a child c whose path is [r, c].
C7_DeriveFromFresh ==
    \A r \in Allocated :
        (Fresh(r) /\ IdNew(r)) =>
            LET c == last'.ret[1]
            IN  id_path(ID_PATHS', c) = Some(<<r, c>>)

\* Id::new on a freshly allocated r returns r and registers it with the path
\* [r]; Id::new on a root r registered with the path [r] yields a child c # r
\* whose path is [r, c].
C7_DeriveFromRoot ==
    \A r \in Allocated :
        /\ (Fresh(r) /\ IdNew(r)) =>
               last'.ret = Some(r) /\ id_path(ID_PATHS', r) = Some(<<r>>)
        /\ (id_path(ID_PATHS, r) = Some(<<r>>) /\ IdNew(r)) =>
               LET c == last'.ret[1]
               IN  c # r /\ id_path(ID_PATHS', c) = Some(<<r, c>>)

\* set_parent of a freshly allocated d onto c, whose path is [r, c], makes d's
\* path [r, c, d], with root_id(d) = r and parent(d) = c.
C7_Attach ==
    \A d \in Allocated :
        Fresh(d) =>
            \A c \in DOMAIN ID_PATHS :
                LET r == ID_PATHS[c][1]
                IN  (ID_PATHS[c] = <<r, c>> /\ SetParent(d, c)) =>
                        /\ id_path(ID_PATHS', d) = Some(<<r, c, d>>)
                        /\ root_id(ID_PATHS', d) = Some(r)
                        /\ parent(ID_PATHS', d) = Some(c)

\* With c's path [r, c] and d's path [r, c, d], remove_id_path(c) leaves
\* id_path(c) none and id_path(d) as it was.
C7_Remove ==
    \A d \in DOMAIN ID_PATHS :
        Len(ID_PATHS[d]) = 3 =>
            LET r == ID_PATHS[d][1]
                c == ID_PATHS[d][2]
            IN  (/\ ID_PATHS[d] = <<r, c, d>>
                 /\ id_path(ID_PATHS, c) = Some(<<r, c>>)
                 /\ RemoveIdPath(c)) =>
                    /\ id_path(ID_PATHS', c) = None
                    /\ id_path(ID_PATHS', d) = Some(<<r, c, d>>)

\* C7 as stated: from a freshly allocated root R, Id::new(R) yields a child C1
\* with path [R, C1]; set_parent of a fresh D onto C1 gives D the path
\* [R, C1, D], root R and parent C1; remove_id_path(C1) leaves id_path(C1)
\* none and id_path(D) unchanged.
C7_EndToEndFromFresh == [][C7_DeriveFromFresh /\ C7_Attach /\ C7_Remove]_vars

\* C7 (amended): from a freshly allocated root R, a first Id::new(R) returns R
\* itself and registers it with the path [R]; the next Id::new(R) yields a
\* child C1 # R with path [R, C1]; the rest as stated.
C7_EndToEndFromRoot == [][C7_DeriveFromRoot /\ C7_Attach /\ C7_Remove]_vars

\* The state the scenario ends in: R = 0, C1 = 1, D = 2.
C7_Witness ==
    /\ last = Call("remove_id_path", Some(1), None, None)
    /\ ID_PATHS = (0 :> <<0>> @@ 2 :> <<0, 1, 2>>)
    /\ issued = <<0, 1, 2>>

\* C8: remove_id_path(x) deletes only the entry keyed by x: every other entry,
\* of a descendant or of an ancestor of x, is unchanged, and afterwards
\* id_path(x) is none and has_id_path(x) is false.
C8_RemoveOnlyOwnEntry ==
    [][\A x \in Allocated :
          RemoveIdPath(x) =>
              /\ SameExcept(ID_PATHS, ID_PATHS', x)
              /\ id_path(ID_PATHS', x) = None
              /\ ~has_id_path(ID_PATHS', x)]_vars

\* x has been removed while a descendant and an ancestor of x are registered.
C8_Witness ==
    /\ last.op = "remove_id_path"
    /\ rewrites = 1
    /\ LET x == last.self[1]
       IN  \E d, a \in DOMAIN ID_PATHS :
              /\ Len(ID_PATHS[d]) = 3
              /\ ID_PATHS[d][2] = x
              /\ ID_PATHS[d][1] = a

\* C9: set_parent(x, p) with p registered stores under x exactly p's path
\* followed by x, whether or not x had an entry, and changes no other entry.
C9_SetParentStores ==
    [][\A x, p \in Allocated :
          (contains_key(ID_PATHS, p) /\ SetParent(x, p)) =>
              /\ id_path(ID_PATHS', x) = Some(ID_PATHS[p] \o <<x>>)
              /\ SameExcept(ID_PATHS, ID_PATHS', x)
              /\ panicked' = panicked]_vars

\* set_parent has replaced the path of an id that still has a registered child.
C9_Witness ==
    /\ last.op = "set_parent"
    /\ ~panicked
    /\ rewrites = 1
    /\ LET x == last.self[1]
           p == last.arg[1]
       IN  /\ x # p
           /\ id_path(ID_PATHS, x) = Some(ID_PATHS[p] \o <<x>>)
           /\ \E c \in DOMAIN ID_PATHS :
                 Len(ID_PATHS[c]) = 2 /\ ID_PATHS[c][1] = x /\ c # x

\* C10: set_parent(x, p) when p has no entry panics instead of returning, the
\* registry is unchanged at the point of failure (x's entry, if any, is still
\* there and nothing was written), and the owner context does nothing after it.
C10_SetParentPanics ==
    [][/\ ~panicked
       /\ \A x, p \in Allocated :
             (~contains_key(ID_PATHS, p) /\ SetParent(x, p)) =>
                 /\ panicked'
                 /\ ID_PATHS' = ID_PATHS]_vars

\* The owner has panicked in set_parent while x had an entry.
C10_Witness ==
    /\ panicked
    /\ last.op = "set_parent"
    /\ contains_key(ID_PATHS, last.self[1])
    /\ ~contains_key(ID_PATHS, last.arg[1])

\* C11: for a registered id, parent() returns the second-to-last element of
\* its path when the path has at least two elements and none otherwise, and
\* root_id() returns the first element; for an unregistered id parent(),
\* root_id() and id_path() return none and has_id_path() returns false; no
\* accessor changes the registry, the counter or the mailbox.
C11_Accessors ==
    [][last'.op \in {"parent", "root_id", "id_path", "has_id_path"} =>
          LET x  == last'.self[1]
              op == last'.op
          IN  /\ Accessor(op, x)
              /\ ID_PATHS' = ID_PATHS
              /\ WIDGET_ID_COUNTER' = WIDGET_ID_COUNTER
              /\ mailVars' = mailVars
              /\ (x \in DOMAIN ID_PATHS) =>
                     LET path == ID_PATHS[x]
                         n    == Len(path)
                     IN  /\ op = "parent" => last'.ret = (IF n >= 2 THEN <<path[n - 1]>> ELSE <<>>)
                         /\ op = "root_id" => last'.ret = <<Head(path)>>
                         /\ op = "id_path" => last'.ret = <<path>>
                         /\ op = "has_id_path" => last'.ret = <<TRUE>>
              /\ (x \notin DOMAIN ID_PATHS) =>
                     last'.ret = (IF op = "has_id_path" THEN <<FALSE>> ELSE <<>>)]_vars

\* parent() has answered m for an id whose path is [r, m, c].
C11_Witness ==
    /\ last.op = "parent"
    /\ contains_key(ID_PATHS, last.self[1])
    /\ Len(ID_PATHS[last.self[1]]) = 3
    /\ last.ret = <<ID_PATHS[last.self[1]][2]>>

\* The request operations that go through add_update_message.
ImmediateOps == {"request_focus", "request_paint", "update_state"}

\* q2 is q with one pair for id x added at the tail: the pairs of q keep their
\* content and their position.
AppendedFor(q, q2, x) ==
    /\ Len(q2) = Len(q) + 1
    /\ \A i \in 1..Len(q) : q2[i] = q[i]
    /\ q2[Len(q2)][1] = x

\* C12: each queue holds its pairs in the order they were enqueued: a request
\* adds its pair behind every pair already queued, a drain takes the whole
\* queue in that order, and the consumer applies the drained pairs from the
\* front; so a pair enqueued earlier is yielded before one enqueued later.
C12_MailboxFifo ==
    [][/\ last'.op \in ImmediateOps =>
              AppendedFor(CENTRAL_UPDATE_MESSAGES, CENTRAL_UPDATE_MESSAGES', last'.self[1])
       /\ last'.op = "update_state_deferred" =>
              AppendedFor(CENTRAL_DEFERRED_UPDATE_MESSAGES, CENTRAL_DEFERRED_UPDATE_MESSAGES',
                          last'.self[1])
       /\ last'.op = "drain_immediate" =>
              batch' = CENTRAL_UPDATE_MESSAGES /\ CENTRAL_UPDATE_MESSAGES' = <<>>
       /\ last'.op = "drain_deferred" =>
              batch' = CENTRAL_DEFERRED_UPDATE_MESSAGES /\ CENTRAL_DEFERRED_UPDATE_MESSAGES' = <<>>
       /\ last'.op = "apply" => batch = <<Head(batch)>> \o batch']_vars

\* (0, Focus) then (0, State) were enqueued and the drain has yielded them in
\* that order.
C12_Witness ==
    /\ last.op = "drain_immediate"
    /\ consumer = "immediate"
    /\ batch = <<<<0, Focus(0)>>, <<0, State(0, "s")>>>>

\* A pair of the deferred queue: its second component is a boxed state.
IsDeferredPair(p) == p[2] \in {Box(state) : state \in States}

\* C13: deferred isolation.  update_state_deferred, also when the consumer is
\* applying the immediate batch, appends its (id, boxed state) pair to the
\* deferred queue and leaves the immediate queue and the batch being applied
\* alone; every other request operation appends to the immediate queue and
\* leaves the deferred queue alone.  What the consumer drains from the
\* immediate queue holds no deferred pair and leaves the deferred queue as it
\* is; the deferred pairs come out of the drain of the deferred queue.
C13_DeferredIsolation ==
    [][/\ last'.op = "update_state_deferred" =>
              /\ CENTRAL_UPDATE_MESSAGES' = CENTRAL_UPDATE_MESSAGES
              /\ batch' = batch
              /\ AppendedFor(CENTRAL_DEFERRED_UPDATE_MESSAGES,
                             CENTRAL_DEFERRED_UPDATE_MESSAGES', last'.self[1])
              /\ IsDeferredPair(CENTRAL_DEFERRED_UPDATE_MESSAGES'[Len(CENTRAL_DEFERRED_UPDATE_MESSAGES')])
       /\ last'.op \in ImmediateOps =>
              /\ CENTRAL_DEFERRED_UPDATE_MESSAGES' = CENTRAL_DEFERRED_UPDATE_MESSAGES
              /\ batch' = batch
              /\ Len(CENTRAL_UPDATE_MESSAGES') = Len(CENTRAL_UPDATE_MESSAGES) + 1
              /\ ~IsDeferredPair(CENTRAL_UPDATE_MESSAGES'[Len(CENTRAL_UPDATE_MESSAGES')])
       /\ last'.op = "drain_immediate" =>
              /\ \A i \in 1..Len(batch') : ~IsDeferredPair(batch'[i])
              /\ CENTRAL_DEFERRED_UPDATE_MESSAGES' = CENTRAL_DEFERRED_UPDATE_MESSAGES
       /\ last'.op = "drain_deferred" =>
              /\ batch' = CENTRAL_DEFERRED_UPDATE_MESSAGES
              /\ \A i \in 1..Len(batch') : IsDeferredPair(batch'[i])
              /\ CENTRAL_UPDATE_MESSAGES' = CENTRAL_UPDATE_MESSAGES]_vars

\* update_state_deferred was called while the consumer still had a pair of the
\* immediate batch to apply.
C13_Witness ==
    /\ last.op = "update_state_deferred"
    /\ consumer = "immediate"
    /\ batch = <<<<0, Focus(0)>>>>
    /\ CENTRAL_UPDATE_MESSAGES = <<>>
    /\ CENTRAL_DEFERRED_UPDATE_MESSAGES = <<<<1, Box("s")>>>>

RequestOps == ImmediateOps \cup {"update_state_deferred"}

\* C14: a request operation on x succeeds whether or not x is registered
\* (nothing but the owner having panicked, or the bound on pending messages,
\* disables it), and its step appends exactly one pair with id x at the tail of
\* one of the two queues, leaves the pairs already queued in both queues, the
\* batch being applied, the registry and the counter as they were, and does not
\* panic.
C14_RequestAppendsOnePair ==
    /\ [](\A x \in Allocated :
              (~panicked /\ Pending < MaxQueue) =>
                  /\ ENABLED RequestFocus(x)
                  /\ ENABLED RequestPaintOp(x)
                  /\ \A state \in States : ENABLED UpdateState(x, state)
                  /\ \A state \in States : ENABLED UpdateStateDeferred(x, state))
    /\ [][last'.op \in RequestOps =>
              /\ \/ /\ AppendedFor(CENTRAL_UPDATE_MESSAGES, CENTRAL_UPDATE_MESSAGES', last'.self[1])
                    /\ CENTRAL_DEFERRED_UPDATE_MESSAGES' = CENTRAL_DEFERRED_UPDATE_MESSAGES
                 \/ /\ AppendedFor(CENTRAL_DEFERRED_UPDATE_MESSAGES,
                                   CENTRAL_DEFERRED_UPDATE_MESSAGES', last'.self[1])
                    /\ CENTRAL_UPDATE_MESSAGES' = CENTRAL_UPDATE_MESSAGES
              /\ batch' = batch
              /\ ID_PATHS' = ID_PATHS
              /\ WIDGET_ID_COUNTER' = WIDGET_ID_COUNTER
              /\ ~panicked']_vars

\* request_focus on the unregistered id 1, behind a pair already queued.
C14_Witness ==
    /\ last.op = "request_focus"
    /\ last.self = Some(1)
    /\ ~contains_key(ID_PATHS, 1)
    /\ CENTRAL_UPDATE_MESSAGES = <<<<0, RequestPaint>>, <<1, Focus(1)>>>>

\* C15: Id::new called twice in a row on the same registered id S with path P
\* returns two different ids B1 and B2, both different from S; after the
\* second call B1 is registered with P + [B1] and B2 with P + [B2], S still
\* has the path P, and the parent of B1 and of B2 is S.  (The first of the two
\* calls was on a registered receiver when it did not return the receiver;
\* each such call leaves the receiver's path as it was.)
C15_TwoChildren ==
    [][(last'.op = "new" /\ contains_key(ID_PATHS, last'.self[1])) =>
           LET S  == last'.self[1]
               B2 == last'.ret[1]
           IN  /\ B2 # S
               /\ get(ID_PATHS', S) = Some(ID_PATHS[S])
               /\ get(ID_PATHS', B2) = Some(ID_PATHS[S] \o <<B2>>)
               /\ parent(ID_PATHS', B2) = Some(S)
               /\ (last.op = "new" /\ last.self = last'.self /\ last.ret # last.self) =>
                      LET B1 == last.ret[1]
                      IN  /\ B1 # B2
                          /\ B1 # S
                          /\ get(ID_PATHS', B1) = Some(ID_PATHS[S] \o <<B1>>)
                          /\ parent(ID_PATHS', B1) = Some(S)]_vars

\* Two children of the root 0, the second made by the last call.
C15_Witness ==
    /\ last = Call("new", Some(0), None, Some(2))
    /\ issued = <<0, 1, 2>>
    /\ rewrites = 0
    /\ ID_PATHS = (0 :> <<0>> @@ 1 :> <<0, 1>> @@ 2 :> <<0, 2>>)

\* C16: remove_id_path(X) leaves X with no entry and every other entry, the
\* stale paths of X's descendants included, as it was; X stays without an
\* entry until set_parent or Id::new is called on it; and Id::new called on X
\* while it has no entry -- in particular as the call right after the removal
\* -- returns X itself and registers it with the path [X], whatever entries
\* still contain X, leaving those entries as they are.
C16_ReuseAfterRemove ==
    [][/\ last'.op = "remove_id_path" =>
              /\ ~contains_key(ID_PATHS', last'.self[1])
              /\ SameExcept(ID_PATHS, ID_PATHS', last'.self[1])
       /\ \A x \in Allocated :
              (~contains_key(ID_PATHS, x)
                  /\ ~(last'.op \in {"new", "set_parent"} /\ last'.self = Some(x)))
              => ~contains_key(ID_PATHS', x)
       /\ (last'.op = "new" /\ ~contains_key(ID_PATHS, last'.self[1])) =>
              /\ last'.ret = last'.self
              /\ get(ID_PATHS', last'.self[1]) = Some(<<last'.self[1]>>)
              /\ SameExcept(ID_PATHS, ID_PATHS', last'.self[1])
       /\ (last.op = "remove_id_path" /\ last'.op = "new" /\ last'.self = last.self) =>
              /\ last'.ret = last'.self
              /\ get(ID_PATHS', last'.self[1]) = Some(<<last'.self[1]>>)]_vars

\* Id 1 was registered below 0, id 2 below 1; 1 was removed and then derived
\* from again: it is a root now, and 2 still has the stale path through 1.
C16_Witness ==
    /\ last = Call("new", Some(1), None, Some(1))
    /\ rewrites = 1
    /\ ID_PATHS = (0 :> <<0>> @@ 1 :> <<1>> @@ 2 :> <<0, 1, 2>>)

\* C17: the counter advances by exactly one on each Id::next call and on each
\* Id::new call on a registered id, and not at all on an Id::new call on an
\* id without an entry, on set_parent (panicking or not), on remove_id_path,
\* on the accessors and on the request operations; so it always equals the
\* number of ids handed out.
C17_CounterAdvance ==
    /\ [](WIDGET_ID_COUNTER = Len(issued))
    /\ [][/\ last'.op = "next" => WIDGET_ID_COUNTER' = WIDGET_ID_COUNTER + 1
          /\ last'.op = "new" =>
                 WIDGET_ID_COUNTER' = WIDGET_ID_COUNTER
                     + (IF contains_key(ID_PATHS, last'.self[1]) THEN 1 ELSE 0)
          /\ last'.op \in {"set_parent", "remove_id_path", "parent", "id_path",
                           "has_id_path", "root_id"} \cup RequestOps =>
                 WIDGET_ID_COUNTER' = WIDGET_ID_COUNTER]_vars

\* Ids 0 and 1 both came from Id::next and were both registered by the reuse
\* branch of Id::new, the last call: the counter is still 2.
C17_Witness ==
    /\ last = Call("new", Some(1), None, Some(1))
    /\ rewrites = 0
    /\ ID_PATHS = (0 :> <<0>> @@ 1 :> <<1>>)
    /\ issued = <<0, 1>>
    /\ WIDGET_ID_COUNTER = 2

\* C18: no entry of the registry holds an empty path; so for every id,
\* has_id_path is true exactly when id_path is Some and exactly when root_id
\* is Some, and Id::new takes its reuse branch (the path it reads is empty)
\* exactly when the id has no entry.
C18_NoEmptyPath ==
    /\ \A x \in DOMAIN ID_PATHS : ID_PATHS[x] # <<>>
    /\ \A x \in Allocated :
           /\ has_id_path(ID_PATHS, x) <=> id_path(ID_PATHS, x) # None
           /\ has_id_path(ID_PATHS, x) <=> root_id(ID_PATHS, x) # None
           /\ reuses(unwrap_or_default(get(ID_PATHS, x))) <=> ~contains_key(ID_PATHS, x)

\* Id 1 was registered below 0 and 2 below 1, then 1 was removed: 1 has no
\* entry and no root, 2 has both.
C18_Witness ==
    /\ last = Call("remove_id_path", Some(1), None, None)
    /\ ID_PATHS = (0 :> <<0>> @@ 2 :> <<0, 1, 2>>)
    /\ root_id(ID_PATHS, 1) = None
    /\ root_id(ID_PATHS, 2) = Some(0)

\* C19: Id::new never overwrites an entry of the registry.  The id it returns
\* had no entry before the call: it is the receiver, which had none, or an id
\* never handed out before.  Every entry there was before the call, the
\* receiver's own included, is the same after it, and the only new key is the
\* returned id.
C19_NewNeverOverwrites ==
    [][last'.op = "new" =>
           LET S == last'.self[1]
               b == last'.ret[1]
           IN  /\ ~contains_key(ID_PATHS, b)
               /\ \/ b = S /\ ~contains_key(ID_PATHS, S)
                  \/ b \notin Elems(issued) /\ contains_key(ID_PATHS, S)
               /\ \A y \in DOMAIN ID_PATHS : get(ID_PATHS', y) = Some(ID_PATHS[y])
               /\ DOMAIN ID_PATHS' = DOMAIN ID_PATHS \cup {b}
               /\ rewrites' = rewrites]_vars

\* Id::new on 1, registered below 0, made 2: the entries of 0 and 1 are as
\* they were.
C19_Witness ==
    /\ last = Call("new", Some(1), None, Some(2))
    /\ rewrites = 0
    /\ ID_PATHS = (0 :> <<0>> @@ 1 :> <<0, 1>> @@ 2 :> <<0, 1, 2>>)

\* No path of the registry m contains the same id twice.
NoDuplicate(m) ==
    \A x \in DOMAIN m : \A i \in 1..Len(m[x]) : \A j \in 1..Len(m[x]) :
        m[x][i] = m[x][j] => i = j

\* A set_parent(X, P) call in which X occurs in P's current path.
SetParentIntoOwnPath ==
    /\ last'.op = "set_parent"
    /\ contains_key(ID_PATHS, last'.arg[1])
    /\ last'.self[1] \in Elems(ID_PATHS[last'.arg[1]])

\* C20: no registered path contains the same id twice, as long as no
\* set_parent(X, P) call is made in which X occurs in P's current path: the
\* empty registry has no such path, and a step of Id::next, Id::new,
\* remove_id_path or of a set_parent call that is not of that kind, taken
\* from a registry without such a path, leaves it without one.
C20_NoDuplicateInPath ==
    /\ NoDuplicate(ID_PATHS)
    /\ [][(NoDuplicate(ID_PATHS) /\ ~SetParentIntoOwnPath) => NoDuplicate(ID_PATHS')]_vars

\* set_parent(2, 0) moved 2, registered below 1, to below 0: 2 was not in the
\* path of 0, and no path has a duplicate.
C20_Witness ==
    /\ last = Call("set_parent", Some(2), Some(0), None)
    /\ rewrites = 1
    /\ ID_PATHS = (0 :> <<0>> @@ 1 :> <<0, 1>> @@ 2 :> <<0, 2>>)
    /\ NoDuplicate(ID_PATHS)

====
